---- MODULE Spec2Model ----
(***************************************************************************)
(* A model of amplifier/codex_cli.py: the CodexCLI helper that discovers   *)
(* the Codex executable, prepares the sandbox directory, builds the `run`  *)
(* command, asks the operator for confirmation and executes the command.   *)
(*                                                                         *)
(* Optional[T] values are sequences of length <= 1: None is <<>> and a     *)
(* present value v is <<v>>, so that None, "" and 0 stay distinct.         *)
(***************************************************************************)
EXTENDS Integers, Sequences, FiniteSets, TLC

VARIABLES
    settings,         \* self.settings: [bin, sandbox, default_mode, default_timeout]
    binary_override,  \* self._binary_override
    cached_binary,    \* self._cached_binary
    files,            \* the executables of the host: path -> state of the file
    dirs,             \* the directories of the host: path -> kind of the entry
    pc,               \* "idle", "confirm" or "running" (where execute() blocks), "done"
    frame,            \* the locals of the execute() call in progress
    last,             \* what the last finished call returned or raised
    events,           \* the effects of the current (or last) call, in order
    envChanges        \* how many times the host changed behind the program

vars == <<settings, binary_override, cached_binary, files, dirs, pc, frame,
          last, events, envChanges>>

(***************************************************************************)
(* Bounds of the model.                                                    *)
(***************************************************************************)
MaxEnvChanges == 1

(***************************************************************************)
(* Optional values and Python truthiness.                                  *)
(***************************************************************************)
None == <<>>
Some(v) == <<v>>

\* bool(s) for an Optional[str]: None and "" are both falsy.
Truthy(o) == o /= None /\ o[1] /= ""

InSeq(x, s) == \E i \in 1..Len(s) : s[i] = x

(***************************************************************************)
(* str(int): the decimal text of an integer.                               *)
(***************************************************************************)
DigitChars == <<"0", "1", "2", "3", "4", "5", "6", "7", "8", "9">>

RECURSIVE str(_)
str(n) ==
    IF n < 0 THEN "-" \o str(0 - n)
    ELSE IF n < 10 THEN DigitChars[n + 1]
    ELSE str(n \div 10) \o DigitChars[(n % 10) + 1]

(***************************************************************************)
(* The host's executables.  A file is "absent", or present and executable  *)
(* in one of four ways: "good" (`--version` exits 0), "badexit"            *)
(* (`--version` exits non-zero), "badinterp" (a script whose interpreter   *)
(* is missing: the launch raises FileNotFoundError) and "badformat" (not a *)
(* loadable program: the launch raises another OSError).                   *)
(***************************************************************************)
SearchPath == <<"/usr/bin">>
ExePaths == {"/opt/codex/codex", "/usr/bin/codex-dev", "/usr/bin/codex"}
FileStates == {"absent", "good", "badexit", "badinterp", "badformat"}

IsAbs(s) == Len(s) > 0 /\ SubSeq(s, 1, 1) = "/"

os_access_X_OK(fs, p) == p \in DOMAIN fs /\ fs[p] /= "absent"

\* shutil.which: a name with a directory is checked as it is, a bare name
\* is looked up in each directory of the search path in order.
RECURSIVE WhichFrom(_, _, _)
WhichFrom(fs, name, i) ==
    IF i > Len(SearchPath) THEN None
    ELSE LET p == SearchPath[i] \o "/" \o name
         IN  IF os_access_X_OK(fs, p) THEN Some(p) ELSE WhichFrom(fs, name, i + 1)

shutil_which(fs, name) ==
    IF IsAbs(name)
    THEN IF os_access_X_OK(fs, name) THEN Some(name) ELSE None
    ELSE WhichFrom(fs, name, 1)

(***************************************************************************)
(* Results.  Every finished call leaves one record in `last`; `kind` is    *)
(* the name of the exception raised, or "return".                          *)
(***************************************************************************)
NoResult ==
    [op |-> "none", kind |-> "none", value |-> "", command |-> <<>>,
     returncode |-> None, stdout |-> "", stderr |-> "", dry_run |-> FALSE,
     message |-> ""]

Returned(op, v) == [NoResult EXCEPT !.op = op, !.kind = "return", !.value = v]
Raised(op, kind, msg) == [NoResult EXCEPT !.op = op, !.kind = kind, !.message = msg]

\* An effect: its kind, its text argument and, for a prompt or a spawn of the
\* target, the command it shows or runs.
Event(e, arg) == [e |-> e, arg |-> arg, cmd |-> <<>>]
CmdEvent(e, arg, cmd) == [e |-> e, arg |-> arg, cmd |-> cmd]

(***************************************************************************)
(* CodexCLI._verify_binary: spawn [binary, "--version"] with check=True.   *)
(* Only FileNotFoundError and CalledProcessError are caught; any other     *)
(* OSError of the launch leaves the method as it is.                       *)
(***************************************************************************)
_verify_binary(fs, binary) ==
    IF ~os_access_X_OK(fs, binary) \/ fs[binary] = "badinterp"
    THEN [kind |-> "CodexUnavailableError", value |-> "",
          message |-> "Codex binary not found"]
    ELSE IF fs[binary] = "badexit"
    THEN [kind |-> "CodexUnavailableError", value |-> "",
          message |-> "Codex binary at '" \o binary \o "' is not executable: "]
    ELSE IF fs[binary] = "badformat"
    THEN [kind |-> "OSError", value |-> "", message |-> "Exec format error"]
    ELSE [kind |-> "return", value |-> binary, message |-> ""]

(***************************************************************************)
(* CodexCLI._resolve_single_candidate.  The result carries the events of   *)
(* the attempt: the lookup of the candidate and the self-check spawned.    *)
(***************************************************************************)
_resolve_single_candidate(fs, candidate) ==
    IF IsAbs(candidate) /\ os_access_X_OK(fs, candidate)
    THEN [res |-> _verify_binary(fs, candidate),
          evs |-> <<Event("search", candidate), Event("selfcheck", candidate)>>]
    ELSE LET resolved == shutil_which(fs, candidate)
         IN  IF resolved /= None
             THEN [res |-> _verify_binary(fs, resolved[1]),
                   evs |-> <<Event("search", candidate),
                             Event("selfcheck", resolved[1])>>]
             ELSE [res |-> [kind |-> "none", value |-> "", message |-> ""],
                   evs |-> <<Event("search", candidate)>>]

(***************************************************************************)
(* CodexCLI.resolve_binary.                                                *)
(***************************************************************************)
\* The same with the two sources swapped: the settings before the override.
Candidates_settings_first(override, bin) ==
    LET c1 == IF Truthy(bin) THEN <<bin[1]>> ELSE <<>>
        c2 == IF Truthy(override) /\ ~InSeq(override[1], c1)
              THEN Append(c1, override[1]) ELSE c1
    IN  IF ~InSeq("codex", c2) THEN Append(c2, "codex") ELSE c2

Candidates(override, bin) ==
    LET c1 == IF Truthy(override) THEN <<override[1]>> ELSE <<>>
        c2 == IF Truthy(bin) /\ ~InSeq(bin[1], c1) THEN Append(c1, bin[1]) ELSE c1
    IN  IF ~InSeq("codex", c2) THEN Append(c2, "codex") ELSE c2

\* The loop over the candidates: the first truthy result is returned, an
\* exception of _resolve_single_candidate ends the loop and the call.
RECURSIVE ResolveLoop(_, _, _, _)
ResolveLoop(fs, cands, i, evs) ==
    IF i > Len(cands)
    THEN [res |-> [kind |-> "CodexUnavailableError", value |-> "",
                   message |-> "Unable to locate the Codex CLI. Set AMPLIFIER_CODEX_BIN or use --codex-bin."],
          evs |-> evs]
    ELSE LET one == _resolve_single_candidate(fs, cands[i])
         IN  IF one.res.kind = "none"
             THEN ResolveLoop(fs, cands, i + 1, evs \o one.evs)
             ELSE [res |-> one.res, evs |-> evs \o one.evs]

\* resolve_binary with the cache written before the self-check: the path
\* located is cached whether or not it passes.
resolve_binary_cache_early(cache, override, bin, fs) ==
    IF Truthy(cache)
    THEN [res |-> [kind |-> "return", value |-> cache[1], message |-> ""],
          evs |-> <<>>, cache |-> cache]
    ELSE LET r == ResolveLoop(fs, Candidates(override, bin), 1, <<>>)
             checked == {i \in 1..Len(r.evs) : r.evs[i].e = "selfcheck"}
         IN  [res |-> r.res, evs |-> r.evs,
              cache |-> IF checked /= {}
                        THEN Some(r.evs[CHOOSE i \in checked : TRUE].arg)
                        ELSE cache]

\* resolve_binary without its first two lines: the cache is never read.
resolve_binary_uncached(cache, override, bin, fs) ==
    LET r == ResolveLoop(fs, Candidates(override, bin), 1, <<>>)
    IN  [res |-> r.res, evs |-> r.evs,
         cache |-> IF r.res.kind = "return" THEN Some(r.res.value) ELSE cache]

\* [res, evs, cache]: the outcome, the effects, and self._cached_binary after.
resolve_binary(cache, override, bin, fs) ==
    IF Truthy(cache)
    THEN [res |-> [kind |-> "return", value |-> cache[1], message |-> ""],
          evs |-> <<>>, cache |-> cache]
    ELSE LET r == ResolveLoop(fs, Candidates(override, bin), 1, <<>>)
         IN  [res |-> r.res, evs |-> r.evs,
              cache |-> IF r.res.kind = "return" THEN Some(r.res.value) ELSE cache]

(***************************************************************************)
(* The host's directories.  An entry is "absent", a "dir", a "file", or    *)
(* "denied": absent, and the host refuses to create it (PermissionError).  *)
(* A path the model does not track is a directory that exists.             *)
(***************************************************************************)
Home == "/data"
Cwd == "/data/codex"
DirPaths == {"/data/codex", "/data/codex/sbx"}
DirKinds == {"absent", "dir", "file", "denied"}

Kind(ds, p) == IF p \in DOMAIN ds THEN ds[p] ELSE "dir"

RECURSIVE LastSlash(_, _)
LastSlash(s, i) ==
    IF i <= 1 THEN 1
    ELSE IF SubSeq(s, i, i) = "/" THEN i ELSE LastSlash(s, i - 1)

\* PurePath.parent of an absolute path.
Dirname(p) ==
    LET k == LastSlash(p, Len(p))
    IN  IF k <= 1 THEN "/" ELSE SubSeq(p, 1, k - 1)

\* Path.expanduser: a leading "~" stands for the home directory.
expanduser(s) ==
    IF s = "~" THEN Home
    ELSE IF Len(s) >= 2 /\ SubSeq(s, 1, 2) = "~/"
         THEN Home \o SubSeq(s, 2, Len(s))
         ELSE s

\* Path.resolve: a relative path is taken from the working directory.
resolve(s) == IF IsAbs(s) THEN s ELSE Cwd \o "/" \o s

\* os.mkdir: [err, ds], the errno class raised (or "none") and the host after.
os_mkdir(ds, p) ==
    LET parent == Kind(ds, Dirname(p))
    IN  IF parent \in {"absent", "denied"}
        THEN [err |-> "FileNotFoundError", ds |-> ds]
        ELSE IF parent = "file"
        THEN [err |-> "NotADirectoryError", ds |-> ds]
        ELSE IF Kind(ds, p) \in {"dir", "file"}
        THEN [err |-> "FileExistsError", ds |-> ds]
        ELSE IF Kind(ds, p) = "denied"
        THEN [err |-> "PermissionError", ds |-> ds]
        ELSE [err |-> "none", ds |-> [ds EXCEPT ![p] = "dir"]]

\* Path.mkdir(parents=True) without exist_ok: an existing entry is an error.
RECURSIVE Path_mkdir_exist_not_ok(_, _)
Path_mkdir_exist_not_ok(ds, p) ==
    LET r == os_mkdir(ds, p)
    IN  IF r.err = "FileNotFoundError" /\ Dirname(p) /= p
        THEN LET up == Path_mkdir_exist_not_ok(ds, Dirname(p))
             IN  IF up.err /= "none" THEN up ELSE os_mkdir(up.ds, p)
        ELSE r

\* Path.mkdir(parents=True, exist_ok=True).
RECURSIVE Path_mkdir(_, _)
Path_mkdir(ds, p) ==
    LET r == os_mkdir(ds, p)
    IN  IF r.err = "none" THEN r
        ELSE IF r.err = "FileNotFoundError"
        THEN IF Dirname(p) = p THEN r
             ELSE LET up == Path_mkdir(ds, Dirname(p))
                  IN  IF up.err /= "none" THEN up
                      ELSE LET again == os_mkdir(up.ds, p)
                           IN  IF again.err /= "none" /\ Kind(again.ds, p) = "dir"
                               THEN [err |-> "none", ds |-> again.ds]
                               ELSE again
        ELSE IF Kind(ds, p) = "dir" THEN [err |-> "none", ds |-> ds] ELSE r

(***************************************************************************)
(* CodexCLI.resolve_sandbox: [res, evs, ds].  The events are the mkdir of  *)
(* the sandbox path and one "created" per directory the host gained.       *)
(***************************************************************************)
DirOrder == <<"/data/codex", "/data/codex/sbx">>

RECURSIVE CreatedFrom(_, _, _)
CreatedFrom(before, after, i) ==
    IF i > Len(DirOrder) THEN <<>>
    ELSE (IF before[DirOrder[i]] /= "dir" /\ after[DirOrder[i]] = "dir"
          THEN <<Event("created", DirOrder[i])>> ELSE <<>>)
         \o CreatedFrom(before, after, i + 1)

MkdirEvents(before, after, p) == <<Event("mkdir", p)>> \o CreatedFrom(before, after, 1)

\* The same without the mkdir and the is_dir test: the path is resolved and
\* returned, and the directories are left as they are.
resolve_sandbox_no_mkdir(sandbox_override, settings_sandbox, ds) ==
    LET sandbox_source == IF Truthy(sandbox_override) THEN sandbox_override
                          ELSE settings_sandbox
    IN  IF sandbox_source = None
        THEN [res |-> [kind |-> "CodexSandboxError", value |-> "",
                       message |-> "Sandbox directory is not configured. Use --sandbox or AMPLIFIER_CODEX_SANDBOX."],
              evs |-> <<>>, ds |-> ds]
        ELSE [res |-> [kind |-> "return",
                       value |-> resolve(expanduser(sandbox_source[1])),
                       message |-> ""],
              evs |-> <<>>, ds |-> ds]

resolve_sandbox(sandbox_override, settings_sandbox, ds) ==
    LET sandbox_source == IF Truthy(sandbox_override) THEN sandbox_override
                          ELSE settings_sandbox
    IN  IF sandbox_source = None
        THEN [res |-> [kind |-> "CodexSandboxError", value |-> "",
                       message |-> "Sandbox directory is not configured. Use --sandbox or AMPLIFIER_CODEX_SANDBOX."],
              evs |-> <<>>, ds |-> ds]
        ELSE LET sandbox_path == resolve(expanduser(sandbox_source[1]))
                 made == Path_mkdir(ds, sandbox_path)
             IN  IF made.err /= "none"
                 THEN [res |-> [kind |-> "CodexSandboxError", value |-> "",
                                message |-> "Unable to create sandbox directory '"
                                            \o sandbox_path \o "': " \o made.err],
                       evs |-> MkdirEvents(ds, made.ds, sandbox_path), ds |-> made.ds]
                 ELSE IF Kind(made.ds, sandbox_path) /= "dir"
                 THEN [res |-> [kind |-> "CodexSandboxError", value |-> "",
                                message |-> "Sandbox path '" \o sandbox_path
                                            \o "' is not a directory"],
                       evs |-> MkdirEvents(ds, made.ds, sandbox_path), ds |-> made.ds]
                 ELSE [res |-> [kind |-> "return", value |-> sandbox_path,
                                message |-> ""],
                       evs |-> MkdirEvents(ds, made.ds, sandbox_path), ds |-> made.ds]

(***************************************************************************)
(* shlex.quote and the display of a command (" ".join of the quoted        *)
(* parts): a part made only of safe characters is shown as it is, any      *)
(* other part is wrapped in single quotes.                                 *)
(***************************************************************************)
SafeChars ==
    {"a", "b", "c", "d", "e", "f", "g", "h", "i", "j", "k", "l", "m", "n",
     "o", "p", "q", "r", "s", "t", "u", "v", "w", "x", "y", "z",
     "A", "B", "C", "D", "E", "F", "G", "H", "I", "J", "K", "L", "M", "N",
     "O", "P", "Q", "R", "S", "T", "U", "V", "W", "X", "Y", "Z",
     "0", "1", "2", "3", "4", "5", "6", "7", "8", "9",
     "_", "@", "%", "+", "=", ":", ",", ".", "/", "-"}

RECURSIVE EscapeQuotes(_, _)
EscapeQuotes(s, i) ==
    IF i > Len(s) THEN ""
    ELSE (IF SubSeq(s, i, i) = "'" THEN "'\"'\"'" ELSE SubSeq(s, i, i))
         \o EscapeQuotes(s, i + 1)

\* The same without the quoting: the text as it is.
shlex_quote_plain(s) == s

shlex_quote(s) ==
    IF s = "" THEN "''"
    ELSE IF \A i \in 1..Len(s) : SubSeq(s, i, i) \in SafeChars THEN s
    ELSE "'" \o EscapeQuotes(s, 1) \o "'"

RECURSIVE JoinQuoted(_, _)
JoinQuoted(cmd, i) ==
    IF i > Len(cmd) THEN ""
    ELSE IF i = Len(cmd) THEN shlex_quote(cmd[i])
    ELSE shlex_quote(cmd[i]) \o " " \o JoinQuoted(cmd, i + 1)

command_display(cmd) == JoinQuoted(cmd, 1)

(***************************************************************************)
(* CodexExecutionError.__init__ and CodexRunResult, as records of `last`.  *)
(***************************************************************************)
\* The same without the default text: an error built without a message has
\* an empty one.
CodexExecutionError_no_default(command, returncode, stdout, stderr, message) ==
    [NoResult EXCEPT !.op = "execute", !.kind = "CodexExecutionError",
                     !.command = command, !.returncode = Some(returncode),
                     !.stdout = stdout, !.stderr = stderr,
                     !.message = IF Truthy(message) THEN message[1] ELSE ""]

CodexExecutionError(command, returncode, stdout, stderr, message) ==
    [NoResult EXCEPT !.op = "execute", !.kind = "CodexExecutionError",
                     !.command = command, !.returncode = Some(returncode),
                     !.stdout = stdout, !.stderr = stderr,
                     !.message = IF Truthy(message) THEN message[1]
                                 ELSE "Codex execution failed"]

CodexRunResult(command, returncode, stdout, stderr, dry_run) ==
    [NoResult EXCEPT !.op = "execute", !.kind = "return",
                     !.command = command, !.returncode = returncode,
                     !.stdout = stdout, !.stderr = stderr, !.dry_run = dry_run]

(***************************************************************************)
(* CodexCLI.execute, from the mode to the prompt.                          *)
(***************************************************************************)
ValidModes == {"suggest", "auto"}

\* The mode with `is not None` in place of truthiness: "" counts as given.
EffectiveMode_empty_is_given(mode, default_mode) ==
    IF mode /= None THEN mode[1]
    ELSE IF default_mode /= "" THEN default_mode
    ELSE "suggest"

\* mode or self.settings.default_mode or "suggest"
EffectiveMode(mode, default_mode) ==
    IF Truthy(mode) THEN mode[1]
    ELSE IF default_mode /= "" THEN default_mode
    ELSE "suggest"

\* timeout if timeout is not None else self.settings.default_timeout
\* The same with `timeout or default`: a timeout of 0 counts as none.
EffectiveTimeout_falsy_zero(timeout, default_timeout) ==
    IF timeout /= None /\ timeout[1] /= 0 THEN timeout ELSE default_timeout

EffectiveTimeout(timeout, default_timeout) ==
    IF timeout /= None THEN timeout ELSE default_timeout

\* The command with `if effective_timeout:` in place of `is not None`: a
\* timeout of 0 is dropped.
BuildCommand_zero_dropped(binary, sandbox_path, effective_mode, context, dry_run, effective_timeout) ==
    LET base == <<binary, "run", "--mode", effective_mode, "--sandbox", sandbox_path>>
        c1 == IF Truthy(context) THEN base \o <<"--context", context[1]>> ELSE base
        c2 == IF dry_run THEN Append(c1, "--dry-run") ELSE c1
    IN  IF effective_timeout /= None /\ effective_timeout[1] /= 0
        THEN c2 \o <<"--timeout", str(effective_timeout[1])>>
        ELSE c2

BuildCommand(binary, sandbox_path, effective_mode, context, dry_run, effective_timeout) ==
    LET base == <<binary, "run", "--mode", effective_mode, "--sandbox", sandbox_path>>
        c1 == IF Truthy(context) THEN base \o <<"--context", context[1]>> ELSE base
        c2 == IF dry_run THEN Append(c1, "--dry-run") ELSE c1
    IN  IF effective_timeout /= None
        THEN c2 \o <<"--timeout", str(effective_timeout[1])>>
        ELSE c2

PromptText(effective_mode, command) ==
    (IF effective_mode = "auto" THEN "Codex will run in AUTO mode. Proceed?"
     ELSE "Execute Codex in SUGGEST mode?")
    \o "\n" \o command_display(command) \o "\nContinue?"

\* The arguments and locals of a call; a field the call has not reached yet
\* keeps its value of NoFrame.
NoFrame ==
    [sandbox |-> None, mode |-> None, context |-> None, dry_run |-> FALSE,
     timeout |-> None, approve |-> FALSE, binary |-> "", sandbox_path |-> "",
     effective_mode |-> "", effective_timeout |-> None, command |-> <<>>]

(***************************************************************************)
(* The inputs the model draws from.                                        *)
(***************************************************************************)
OverrideChoices == {None, Some("/opt/codex/codex"), Some("codex")}
BinChoices == {None, Some("codex-dev"), Some("codex")}
SandboxSettingChoices == {None, Some("/data/codex")}
DefaultModeChoices == {"auto", "", "turbo"}
DefaultTimeoutChoices == {None, Some(30)}

ModeChoices == {None, Some(""), Some("suggest"), Some("turbo")}
ContextChoices == {None, Some(""), Some("fix it")}
SandboxChoices == {None, Some(""), Some("sbx"), Some("~/codex/sbx")}
TimeoutChoices == {None, Some(0), Some(5)}
ExitCodes == {0, 1, -1}
Streams == {<<"ok", "warn">>}
PartialStreams == {<<None, None>>, <<Some("part"), Some("warn")>>}

\* A host is consistent: an entry exists only inside a directory.
ConsistentDirs(ds) ==
    \A p \in DOMAIN ds :
        (Dirname(p) \in DOMAIN ds /\ ds[Dirname(p)] /= "dir") => ds[p] = "absent"

\* The executables a candidate can denote; the program reads no other file.
Watched(override, bin) ==
    LET cands == Candidates(override, bin)
    IN  {p \in ExePaths :
            \E i \in 1..Len(cands) :
                \/ p = cands[i]
                \/ \E k \in 1..Len(SearchPath) : p = SearchPath[k] \o "/" \o cands[i]}

\* CodexCLI.__init__ on some host.  Either the binaries vary (the caller's
\* override, the configured binary and the executables installed) around
\* the default settings, or the other settings and the directories vary
\* around a host where only the default "codex" is installed.
Init ==
    /\ \/ /\ settings \in [bin : BinChoices, sandbox : {Some("/data/codex")},
                           default_mode : {"auto"}, default_timeout : {None}]
          /\ binary_override \in OverrideChoices
          /\ files \in [ExePaths -> FileStates]
          /\ \A p \in ExePaths \ Watched(binary_override, settings.bin) :
                files[p] = "absent"
          /\ dirs = [p \in DirPaths |-> IF p = "/data/codex" THEN "dir" ELSE "absent"]
       \/ /\ settings \in [bin : {None}, sandbox : SandboxSettingChoices,
                           default_mode : DefaultModeChoices,
                           default_timeout : DefaultTimeoutChoices]
          /\ binary_override = None
          /\ files = [p \in ExePaths |-> IF p = "/usr/bin/codex" THEN "good" ELSE "absent"]
          /\ dirs \in {ds \in [DirPaths -> DirKinds] : ConsistentDirs(ds)}
    /\ cached_binary = None
    /\ pc = "idle"
    /\ frame = NoFrame
    /\ last = NoResult
    /\ events = <<>>
    /\ envChanges = 0

(***************************************************************************)
(* The public methods called on their own.  A finished call stops at       *)
(* pc = "done" with its outcome in `last`, until the caller takes it.      *)
(***************************************************************************)
ResolveBinary ==
    /\ pc = "idle"
    /\ LET r == resolve_binary(cached_binary, binary_override, settings.bin, files)
       IN  /\ cached_binary' = r.cache
           /\ events' = r.evs
           /\ last' = IF r.res.kind = "return"
                      THEN Returned("resolve_binary", r.res.value)
                      ELSE Raised("resolve_binary", r.res.kind, r.res.message)
    /\ pc' = "done"
    /\ frame' = NoFrame
    /\ UNCHANGED <<settings, binary_override, files, dirs, envChanges>>

ResolveSandbox ==
    /\ pc = "idle"
    /\ \E sandbox \in SandboxChoices :
         LET r == resolve_sandbox(sandbox, settings.sandbox, dirs)
         IN  /\ dirs' = r.ds
             /\ events' = r.evs
             /\ last' = IF r.res.kind = "return"
                        THEN Returned("resolve_sandbox", r.res.value)
                        ELSE Raised("resolve_sandbox", r.res.kind, r.res.message)
             /\ frame' = [NoFrame EXCEPT !.sandbox = sandbox]
    /\ pc' = "done"
    /\ UNCHANGED <<settings, binary_override, cached_binary, files, envChanges>>

(***************************************************************************)
(* CodexCLI.execute.  The call blocks twice, on the operator's answer and  *)
(* on the child process; each part between two blocking points is one      *)
(* action.                                                                 *)
(***************************************************************************)
\* subprocess.run(command, ...): how the launch of command[0] ends.
\* The same with every failure of the launch reported alike, as an OSError
\* that execute does not handle.
Launch_any_oserror(fs, binary) ==
    IF ~os_access_X_OK(fs, binary) \/ fs[binary] \in {"badinterp", "badformat"}
    THEN "OSError"
    ELSE "started"

Launch(fs, binary) ==
    IF ~os_access_X_OK(fs, binary) \/ fs[binary] = "badinterp"
    THEN "FileNotFoundError"
    ELSE IF fs[binary] = "badformat" THEN "OSError"
    ELSE "started"

\* The call ends with the outcome r after the effects evs; fr holds the
\* arguments and locals it got to.
Finish(r, evs, fr) ==
    /\ last' = r
    /\ events' = evs
    /\ pc' = "done"
    /\ frame' = fr

\* The same without the dry-run return: the command is always launched.
AfterGate_no_dry_return(fr, evs) ==
    LET how == Launch(files, fr.command[1])
        evs2 == Append(evs, CmdEvent("spawn", "", fr.command))
    IN  IF how = "started"
        THEN /\ pc' = "running"
             /\ frame' = fr
             /\ events' = evs2
             /\ UNCHANGED last
        ELSE IF how = "FileNotFoundError"
        THEN Finish(Raised("execute", "CodexUnavailableError",
                           "Codex binary disappeared during execution"), evs2, fr)
        ELSE Finish(Raised("execute", "OSError", "Exec format error"), evs2, fr)

\* From the end of the confirmation gate to the spawn of the child.
AfterGate(fr, evs) ==
    IF fr.dry_run
    THEN Finish(CodexRunResult(fr.command, None, "", "", TRUE), evs, fr)
    ELSE LET how == Launch(files, fr.command[1])
             evs2 == Append(evs, CmdEvent("spawn", "", fr.command))
         IN  IF how = "started"
             THEN /\ pc' = "running"
                  /\ frame' = fr
                  /\ events' = evs2
                  /\ UNCHANGED last
             ELSE IF how = "FileNotFoundError"
             THEN Finish(Raised("execute", "CodexUnavailableError",
                                "Codex binary disappeared during execution"), evs2, fr)
             ELSE Finish(Raised("execute", "OSError", "Exec format error"), evs2, fr)

\* The same with the mode validated first, before the sandbox is resolved.
ExecuteCall_mode_first ==
    /\ pc = "idle"
    /\ LET rb == resolve_binary(cached_binary, binary_override, settings.bin, files)
           binary == rb.res.value
       IN  /\ cached_binary' = rb.cache
           /\ IF rb.res.kind /= "return"
              THEN /\ Finish(Raised("execute", rb.res.kind, rb.res.message), rb.evs,
                             NoFrame)
                   /\ UNCHANGED dirs
              ELSE \E mode \in ModeChoices :
                 LET effective_mode == EffectiveMode(mode, settings.default_mode)
                     fr1 == [NoFrame EXCEPT !.binary = binary,
                                            !.mode = mode,
                                            !.effective_mode = effective_mode]
                 IN  IF effective_mode \notin ValidModes
                     THEN /\ Finish(CodexExecutionError(
                                        <<binary>>, -1, "", "",
                                        Some("Unsupported Codex mode '"
                                             \o effective_mode \o "'.")),
                                    rb.evs, fr1)
                          /\ UNCHANGED dirs
                     ELSE \E sandbox \in SandboxChoices :
                        LET rs == resolve_sandbox(sandbox, settings.sandbox, dirs)
                            sandbox_path == rs.res.value
                            evs == rb.evs \o rs.evs
                            fr2 == [fr1 EXCEPT !.sandbox_path = sandbox_path]
                        IN  /\ dirs' = rs.ds
                            /\ IF rs.res.kind /= "return"
                               THEN Finish(Raised("execute", rs.res.kind, rs.res.message),
                                           evs, fr2)
                               ELSE \E context \in ContextChoices, dry_run \in BOOLEAN,
                                       timeout \in TimeoutChoices, approve \in BOOLEAN :
                                  LET effective_timeout ==
                                          EffectiveTimeout(timeout, settings.default_timeout)
                                      command ==
                                          BuildCommand(binary, sandbox_path, effective_mode,
                                                       context, dry_run, effective_timeout)
                                      fr == [fr2 EXCEPT !.context = context,
                                                        !.dry_run = dry_run,
                                                        !.timeout = timeout,
                                                        !.approve = approve,
                                                        !.effective_timeout = effective_timeout,
                                                        !.command = command]
                                  IN  IF ~approve
                                      THEN /\ pc' = "confirm"
                                           /\ frame' = fr
                                           /\ events' = Append(evs,
                                                  CmdEvent("prompt",
                                                           PromptText(effective_mode, command),
                                                           command))
                                           /\ UNCHANGED last
                                      ELSE AfterGate(fr, evs)
    /\ UNCHANGED <<settings, binary_override, files, envChanges>>

\* The arguments are drawn where the code first reads them.
ExecuteCall ==
    /\ pc = "idle"
    /\ LET rb == resolve_binary(cached_binary, binary_override, settings.bin, files)
           binary == rb.res.value
       IN  /\ cached_binary' = rb.cache
           /\ IF rb.res.kind /= "return"
              THEN /\ Finish(Raised("execute", rb.res.kind, rb.res.message), rb.evs,
                             NoFrame)
                   /\ UNCHANGED dirs
              ELSE \E sandbox \in SandboxChoices :
                 LET rs == resolve_sandbox(sandbox, settings.sandbox, dirs)
                     sandbox_path == rs.res.value
                     evs == rb.evs \o rs.evs
                     fr1 == [NoFrame EXCEPT !.binary = binary,
                                            !.sandbox_path = sandbox_path]
                 IN  /\ dirs' = rs.ds
                     /\ IF rs.res.kind /= "return"
                        THEN Finish(Raised("execute", rs.res.kind, rs.res.message),
                                    evs, fr1)
                        ELSE \E mode \in ModeChoices :
                           LET effective_mode == EffectiveMode(mode, settings.default_mode)
                               fr2 == [fr1 EXCEPT !.mode = mode,
                                                  !.effective_mode = effective_mode]
                           IN  IF effective_mode \notin ValidModes
                               THEN Finish(CodexExecutionError(
                                               <<binary>>, -1, "", "",
                                               Some("Unsupported Codex mode '"
                                                    \o effective_mode \o "'.")),
                                           evs, fr2)
                               ELSE \E context \in ContextChoices, dry_run \in BOOLEAN,
                                       timeout \in TimeoutChoices, approve \in BOOLEAN :
                                  LET effective_timeout ==
                                          EffectiveTimeout(timeout, settings.default_timeout)
                                      command ==
                                          BuildCommand(binary, sandbox_path, effective_mode,
                                                       context, dry_run, effective_timeout)
                                      fr == [fr2 EXCEPT !.context = context,
                                                        !.dry_run = dry_run,
                                                        !.timeout = timeout,
                                                        !.approve = approve,
                                                        !.effective_timeout = effective_timeout,
                                                        !.command = command]
                                  IN  IF ~approve
                                      THEN /\ pc' = "confirm"
                                           /\ frame' = fr
                                           /\ events' = Append(evs,
                                                  CmdEvent("prompt",
                                                           PromptText(effective_mode, command),
                                                           command))
                                           /\ UNCHANGED last
                                      ELSE AfterGate(fr, evs)
    /\ UNCHANGED <<settings, binary_override, files, envChanges>>

\* What the operator types at the prompt: yes, no, or nothing but Enter.
OperatorInputs == {"y", "n", ""}

\* The same with the default taken for a yes.
click_confirm_default_yes(typed, default) ==
    IF typed = "" THEN TRUE ELSE typed = "y"

\* click.confirm(prompt, default): the answer typed, or the default when
\* the operator types nothing.
click_confirm(typed, default) ==
    IF typed = "" THEN default ELSE typed = "y"

\* The gate with its test dropped: the answer is read and not acted on.
Confirm_answer_ignored ==
    /\ pc = "confirm"
    /\ \E typed \in OperatorInputs :
         LET answer == click_confirm(typed, FALSE)
         IN  AfterGate(frame, events \o <<Event("typed", typed),
                                          Event("answer", IF answer THEN "yes" ELSE "no")>>)
    /\ UNCHANGED <<settings, binary_override, cached_binary, files, dirs, envChanges>>

\* `if not click.confirm(prompt, default=False): raise ...Cancelled`.
Confirm ==
    /\ pc = "confirm"
    /\ \E typed \in OperatorInputs :
         LET answer == click_confirm(typed, FALSE)
             evs == events \o <<Event("typed", typed),
                                Event("answer", IF answer THEN "yes" ELSE "no")>>
         IN  IF ~answer
             THEN Finish(Raised("execute", "CodexExecutionCancelled",
                                "Codex execution cancelled by user"),
                         evs, frame)
             ELSE AfterGate(frame, evs)
    /\ UNCHANGED <<settings, binary_override, cached_binary, files, dirs, envChanges>>

\* The exit with `returncode > 0` in place of `!= 0`: a child killed by a
\* signal (negative code) counts as a success.
ProcessExits_negative_ok ==
    /\ pc = "running"
    /\ \E returncode \in ExitCodes, io \in Streams :
         Finish(IF returncode > 0
                THEN CodexExecutionError(frame.command, returncode, io[1], io[2], None)
                ELSE CodexRunResult(frame.command, Some(returncode), io[1], io[2], FALSE),
                events \o <<Event("exit", str(returncode)),
                            Event("stdout", io[1]), Event("stderr", io[2])>>,
                frame)
    /\ UNCHANGED <<settings, binary_override, cached_binary, files, dirs, envChanges>>

\* The child exits before the timeout.
ProcessExits ==
    /\ pc = "running"
    /\ \E returncode \in ExitCodes, io \in Streams :
         Finish(IF returncode /= 0
                THEN CodexExecutionError(frame.command, returncode, io[1], io[2], None)
                ELSE CodexRunResult(frame.command, Some(returncode), io[1], io[2], FALSE),
                events \o <<Event("exit", str(returncode)),
                            Event("stdout", io[1]), Event("stderr", io[2])>>,
                frame)
    /\ UNCHANGED <<settings, binary_override, cached_binary, files, dirs, envChanges>>

\* The timeout reported like a plain failure: no note of the duration.
ProcessTimesOut_no_note ==
    /\ pc = "running"
    /\ frame.effective_timeout /= None
    /\ \E io \in PartialStreams :
         Finish(CodexExecutionError(
                    frame.command, -1,
                    IF Truthy(io[1]) THEN io[1][1] ELSE "",
                    IF Truthy(io[2]) THEN io[2][1] ELSE "",
                    Some("Codex execution timed out")),
                events \o <<Event("timeout", str(frame.effective_timeout[1])),
                            Event("stdout", IF io[1] = None THEN "" ELSE io[1][1]),
                            Event("stderr", IF io[2] = None THEN "" ELSE io[2][1])>>,
                frame)
    /\ UNCHANGED <<settings, binary_override, cached_binary, files, dirs, envChanges>>

\* subprocess.TimeoutExpired: the child outlived the effective timeout.
ProcessTimesOut ==
    /\ pc = "running"
    /\ frame.effective_timeout /= None
    /\ \E io \in PartialStreams :
         Finish(CodexExecutionError(
                    frame.command, -1,
                    IF Truthy(io[1]) THEN io[1][1] ELSE "",
                    (IF Truthy(io[2]) THEN io[2][1] ELSE "")
                       \o (IF frame.effective_timeout /= None
                           THEN "\nTimed out after "
                                \o str(frame.effective_timeout[1]) \o "s"
                           ELSE ""),
                    Some("Codex execution timed out")),
                events \o <<Event("timeout", str(frame.effective_timeout[1])),
                            Event("stdout", IF io[1] = None THEN "" ELSE io[1][1]),
                            Event("stderr", IF io[2] = None THEN "" ELSE io[2][1])>>,
                frame)
    /\ UNCHANGED <<settings, binary_override, cached_binary, files, dirs, envChanges>>

\* The caller takes the outcome; the instance keeps only its cache.
Return ==
    /\ pc = "done"
    /\ pc' = "idle"
    /\ last' = NoResult
    /\ events' = <<>>
    /\ frame' = NoFrame
    /\ UNCHANGED <<settings, binary_override, cached_binary, files, dirs, envChanges>>

(***************************************************************************)
(* The host changes behind the program, between two calls or while a call  *)
(* waits for the operator: an executable is installed, replaced or         *)
(* removed.  (Once the child runs, the call reads no file any more.)       *)
(***************************************************************************)
HostChange ==
    /\ pc \in {"idle", "confirm"}
    /\ envChanges < MaxEnvChanges
    /\ \E p \in Watched(binary_override, settings.bin), s \in FileStates :
         /\ files[p] /= s
         /\ files' = [files EXCEPT ![p] = s]
    /\ envChanges' = envChanges + 1
    /\ UNCHANGED <<settings, binary_override, cached_binary, dirs, pc, frame, last,
                   events>>

Next ==
    \/ ResolveBinary
    \/ ResolveSandbox
    \/ ExecuteCall
    \/ Confirm
    \/ ProcessExits
    \/ ProcessTimesOut
    \/ Return
    \/ HostChange

Spec == Init /\ [][Next]_vars

\* subprocess.run(command, timeout=t) with a timeout t does not block for
\* ever: if the child has not exited after t seconds it is killed and
\* TimeoutExpired is raised.  Without a timeout nothing bounds the wait.
\* What follows a spawn does not depend on how the binary was chosen: the
\* liveness of the wait is checked on the hosts of Init where "codex" is the
\* only candidate.
FairInit == Init /\ binary_override = None /\ settings.bin = None

FairSpec == FairInit /\ [][Next]_vars /\ WF_vars(ProcessTimesOut)

(***************************************************************************)
(* Vocabulary of the properties.                                           *)
(***************************************************************************)
HasEvent(evs, kind) == \E i \in 1..Len(evs) : evs[i].e = kind

\* The lookups and self-checks among the effects evs, in order.
IsSearchEvent(ev) == ev.e \in {"search", "selfcheck"}
SearchEvents(evs) == SelectSeq(evs, IsSearchEvent)

\* The executable a candidate denotes on the host, if it denotes one.
Denotes(c, p) ==
    /\ files[p] /= "absent"
    /\ \/ c = p
       \/ ~IsAbs(c) /\ \E k \in 1..Len(SearchPath) :
              /\ p = SearchPath[k] \o "/" \o c
              /\ \A j \in 1..(k - 1) :
                    (SearchPath[j] \o "/" \o c) \notin DOMAIN files
                    \/ files[SearchPath[j] \o "/" \o c] = "absent"

\* The paths of the candidates that are located and pass their self-check.
VerifiablePaths ==
    LET cands == Candidates(binary_override, settings.bin)
    IN  {p \in ExePaths : files[p] = "good"
                          /\ \E i \in 1..Len(cands) : Denotes(cands[i], p)}

(***************************************************************************)
(* C1.  A candidate that is located but fails its self-check is skipped    *)
(* and resolution goes on: whenever a resolve_binary call has searched a   *)
(* candidate list that holds at least one verifiable entry, it has         *)
(* returned the path of a verifiable entry, not raised.                    *)
(* The code does not do this: _verify_binary raises and resolve_binary     *)
(* does not catch, so the first located candidate that fails ends the      *)
(* whole resolution.                                                       *)
(***************************************************************************)
C1_FailedSelfCheckIsSkipped ==
    (/\ pc = "done"
     /\ last.op = "resolve_binary"
     /\ HasEvent(events, "search")
     /\ VerifiablePaths /= {})
    => (last.kind = "return" /\ last.value \in VerifiablePaths)

(***************************************************************************)
(* C2.  Once the cache holds a path it never changes, a call made with the *)
(* cache set performs no lookup and no self-check, and every outcome,      *)
(* command and spawn of such a call uses the cached path.                  *)
(***************************************************************************)
C2_Step ==
    cached_binary /= None =>
        /\ cached_binary' = cached_binary
        /\ SearchEvents(events') \in {<<>>, SearchEvents(events)}
        /\ (pc = "idle" => SearchEvents(events') = <<>>)
        /\ (last'.op = "resolve_binary"
               => last'.kind = "return" /\ last'.value = cached_binary[1])
        /\ (last'.command /= <<>> => last'.command[1] = cached_binary[1])
        /\ (frame'.command /= <<>> => frame'.command[1] = cached_binary[1])
        /\ \A i \in 1..Len(events') :
              events'[i].e = "spawn" => events'[i].cmd[1] = cached_binary[1]

C2_CacheIsFinal == [][C2_Step]_vars

\* An execute on a cached instance failed at the spawn because the binary
\* had disappeared, and the cache still holds the path.
C2_Witness ==
    /\ pc = "done"
    /\ last.kind = "CodexUnavailableError"
    /\ last.message = "Codex binary disappeared during execution"
    /\ ~HasEvent(events, "search")
    /\ cached_binary /= None
    /\ files[cached_binary[1]] = "absent"

(***************************************************************************)
(* C3.  When no candidate passes verification, resolve_binary and execute  *)
(* fail with Unavailable: a call started on an instance with an empty      *)
(* cache and no verifiable candidate ends at once with                     *)
(* CodexUnavailableError, without a spawn of the target, a mkdir of the    *)
(* sandbox or a prompt.                                                    *)
(* The code does not do this for a candidate whose launch fails with an    *)
(* OSError other than FileNotFoundError: that error leaves the call as it  *)
(* is.                                                                     *)
(***************************************************************************)
C3_Step ==
    (/\ pc = "idle"
     /\ pc' /= "idle"
     /\ last'.op /= "resolve_sandbox"
     /\ cached_binary = None
     /\ VerifiablePaths = {})
    => /\ pc' = "done"
       /\ last'.kind = "CodexUnavailableError"
       /\ ~HasEvent(events', "spawn")
       /\ ~HasEvent(events', "mkdir")
       /\ ~HasEvent(events', "prompt")
       /\ dirs' = dirs

C3_NoVerifiableCandidateIsUnavailable == [][C3_Step]_vars

(***************************************************************************)
(* C4.  An execute call with dry_run=true never spawns the target command  *)
(* and never waits on a child; when it returns a result, the result has    *)
(* returncode None, dry_run true, empty stdout and stderr and the command  *)
(* built.  (The self-check of binary resolution may still be spawned.)     *)
(***************************************************************************)
C4_DryRunNeverSpawns ==
    frame.dry_run =>
        /\ pc /= "running"
        /\ ~HasEvent(events, "spawn")
        /\ ~HasEvent(events, "exit")
        /\ (pc = "done" /\ last.kind = "return"
              => /\ last.returncode = None
                 /\ last.dry_run
                 /\ last.stdout = ""
                 /\ last.stderr = ""
                 /\ last.command = frame.command)

\* A dry run that resolved the binary (self-check spawned), asked the
\* operator, was approved and returned its result.
C4_Witness ==
    /\ pc = "done"
    /\ frame.dry_run
    /\ last.op = "execute"
    /\ last.kind = "return"
    /\ HasEvent(events, "selfcheck")
    /\ HasEvent(events, "answer")

(***************************************************************************)
(* C5.  When the operator answers no, the call ends at once with           *)
(* CodexExecutionCancelled: no target is spawned and no result is          *)
(* produced, whatever the mode and dry_run; and the operator is only asked *)
(* when approve is false.                                                  *)
(***************************************************************************)
C5_DeclineCancels ==
    /\ HasEvent(events, "answer") => ~frame.approve
    /\ (\E i \in 1..Len(events) : events[i].e = "answer" /\ events[i].arg = "no")
         => /\ pc = "done"
            /\ last.op = "execute"
            /\ last.kind = "CodexExecutionCancelled"
            /\ last.command = <<>>
            /\ last.returncode = None
            /\ ~HasEvent(events, "spawn")

\* The operator declined a dry run in auto mode.
C5_Witness ==
    /\ pc = "done"
    /\ last.kind = "CodexExecutionCancelled"
    /\ frame.dry_run
    /\ frame.effective_mode = "auto"
    /\ ~frame.approve

(***************************************************************************)
(* C6.  The mode is validated once the binary and the sandbox are          *)
(* resolved.                                                               *)
(***************************************************************************)
\* The call got to the validation of the mode.
ReachedMode == frame.sandbox_path /= ""

ModeFailure ==
    /\ pc = "done"
    /\ last.op = "execute"
    /\ last.kind = "CodexExecutionError"
    /\ last.returncode = Some(-1)
    /\ last.message = "Unsupported Codex mode '" \o frame.effective_mode \o "'."
    /\ last.command = <<frame.binary>>
    /\ last.stdout = ""
    /\ last.stderr = ""
    /\ ~HasEvent(events, "prompt")
    /\ ~HasEvent(events, "spawn")

\* C6 as stated: every mode supplied outside {"suggest", "auto"}, the empty
\* string included, fails with the ExecutionError of the mode before any
\* prompt or spawn.  The empty string does not: it is replaced by the
\* default mode.
C6_EveryOtherModeFails ==
    (ReachedMode /\ frame.mode /= None /\ frame.mode[1] \notin ValidModes)
        => ModeFailure

\* C6 as amended: the mode validated is the supplied mode if it is
\* non-empty, else the default mode of the settings if that is non-empty,
\* else "suggest"; when it is outside {"suggest", "auto"} the call fails
\* with ExecutionError, return code -1, naming that mode, before any prompt
\* or spawn; so every non-empty mode supplied outside the set fails.
C6_EveryOtherNonEmptyModeFails ==
    ReachedMode =>
        /\ frame.effective_mode =
              (IF frame.mode /= None /\ frame.mode[1] /= "" THEN frame.mode[1]
               ELSE IF settings.default_mode /= "" THEN settings.default_mode
               ELSE "suggest")
        /\ (frame.effective_mode \notin ValidModes => ModeFailure)
        /\ (frame.mode /= None /\ frame.mode[1] /= ""
              /\ frame.mode[1] \notin ValidModes => ModeFailure)

\* A non-empty bad mode was supplied and rejected.
C6_Witness ==
    /\ ReachedMode
    /\ frame.mode = Some("turbo")
    /\ ModeFailure

(***************************************************************************)
(* C7.  In every result execute returns, returncode is None exactly when   *)
(* dry_run is true, and a result that is not a dry run carries the exit    *)
(* code of the child, which is 0.                                          *)
(***************************************************************************)
C7_ReturnCodeIffNotDryRun ==
    (pc = "done" /\ last.op = "execute" /\ last.kind = "return")
        => /\ (last.returncode = None) <=> last.dry_run
           /\ last.dry_run = frame.dry_run
           /\ ~last.dry_run
                => /\ last.returncode = Some(0)
                   /\ \E i \in 1..Len(events) :
                         events[i].e = "exit" /\ events[i].arg = "0"

\* A real run returned its result.
C7_Witness ==
    /\ pc = "done"
    /\ last.op = "execute"
    /\ last.kind = "return"
    /\ ~last.dry_run
    /\ last.stdout = "ok"

(***************************************************************************)
(* C8.  resolve_sandbox is idempotent: after a call that returned a path,  *)
(* the same call again returns the same absolute path, does not fail, and  *)
(* leaves the directories as the first call left them.                     *)
(***************************************************************************)
C8_SandboxIdempotent ==
    (pc = "done" /\ last.op = "resolve_sandbox" /\ last.kind = "return")
        => LET again == resolve_sandbox(frame.sandbox, settings.sandbox, dirs)
           IN  /\ again.res.kind = "return"
               /\ again.res.value = last.value
               /\ again.ds = dirs
               /\ IsAbs(last.value)
               /\ Kind(dirs, last.value) = "dir"

\* The first call created the directory it returned.
C8_Witness ==
    /\ pc = "done"
    /\ last.op = "resolve_sandbox"
    /\ last.kind = "return"
    /\ \E i \in 1..Len(events) :
          events[i].e = "created" /\ events[i].arg = last.value

(***************************************************************************)
(* C9.  The command execute builds is exactly                              *)
(* [binary, "run", "--mode", mode, "--sandbox", sandbox], then             *)
(* ["--context", context] iff the context is non-empty, then ["--dry-run"] *)
(* iff dry_run, then ["--timeout", t] iff there is an effective timeout    *)
(* (the timeout argument if it is given, 0 included, else the default of   *)
(* the settings), and nothing else.                                        *)
(***************************************************************************)
\* The decimal text of the timeouts in use.
TimeoutText(n) ==
    CASE n = 0 -> "0"
      [] n = 5 -> "5"
      [] n = 30 -> "30"

C9_CommandShape ==
    frame.command /= <<>> =>
        LET c == frame.command
            hasContext == frame.context /= None /\ frame.context[1] /= ""
            given == frame.timeout /= None
            hasTimeout == given \/ settings.default_timeout /= None
            t == IF given THEN frame.timeout[1] ELSE settings.default_timeout[1]
            afterContext == IF hasContext THEN 8 ELSE 6
            afterDryRun == IF frame.dry_run THEN afterContext + 1 ELSE afterContext
            n == IF hasTimeout THEN afterDryRun + 2 ELSE afterDryRun
        IN  /\ Len(c) = n
            /\ c[1] = cached_binary[1]
            /\ c[1] = frame.binary
            /\ c[2] = "run"
            /\ c[3] = "--mode"
            /\ c[4] = frame.effective_mode
            /\ c[5] = "--sandbox"
            /\ c[6] = frame.sandbox_path
            /\ hasContext => c[7] = "--context" /\ c[8] = frame.context[1]
            /\ frame.dry_run => c[afterDryRun] = "--dry-run"
            /\ hasTimeout => c[n - 1] = "--timeout" /\ c[n] = TimeoutText(t)

\* A command with every optional part, built for an explicit timeout of 0
\* over a default of 30.
C9_Witness ==
    /\ frame.command /= <<>>
    /\ Len(frame.command) = 11
    /\ frame.timeout = Some(0)
    /\ settings.default_timeout = Some(30)
    /\ frame.context = Some("fix it")

(***************************************************************************)
(* C10.  The child outlives the effective timeout.                         *)
(***************************************************************************)
\* The text of the first event of a kind.
EventArg(evs, kind) ==
    evs[CHOOSE i \in 1..Len(evs) : evs[i].e = kind].arg

\* s holds sub as a substring; s starts with pre.
Contains(s, sub) ==
    \E i \in 1..(Len(s) - Len(sub) + 1) : SubSeq(s, i, i + Len(sub) - 1) = sub
StartsWith(s, pre) == Len(s) >= Len(pre) /\ SubSeq(s, 1, Len(pre)) = pre

TimedOut == pc = "done" /\ HasEvent(events, "timeout")

\* C10 as stated: the ExecutionError has return code -1, holds the partial
\* output captured, and its message notes the duration of the timeout.
\* The message does not: it is a fixed text.
C10_MessageNotesDuration ==
    TimedOut =>
        /\ last.kind = "CodexExecutionError"
        /\ last.returncode = Some(-1)
        /\ last.stdout = EventArg(events, "stdout")
        /\ StartsWith(last.stderr, EventArg(events, "stderr"))
        /\ Contains(last.message, TimeoutText(frame.effective_timeout[1]))

\* C10 as amended: the ExecutionError has return code -1, the command run,
\* the partial stdout captured, the partial stderr captured followed by
\* "\nTimed out after <t>s" for the effective timeout t, and the fixed
\* message "Codex execution timed out": the duration is noted in stderr.
C10_StderrNotesDuration ==
    TimedOut =>
        /\ last.op = "execute"
        /\ last.kind = "CodexExecutionError"
        /\ last.returncode = Some(-1)
        /\ last.command = frame.command
        /\ last.stdout = EventArg(events, "stdout")
        /\ last.stderr = EventArg(events, "stderr") \o "\nTimed out after "
                            \o TimeoutText(frame.effective_timeout[1]) \o "s"
        /\ last.message = "Codex execution timed out"
        /\ frame.effective_timeout /= None

\* A run with timeout=5 timed out after some output was captured.
C10_Witness ==
    /\ TimedOut
    /\ frame.timeout = Some(5)
    /\ EventArg(events, "stdout") = "part"
    /\ last.stderr = "warn\nTimed out after 5s"

(***************************************************************************)
(* C11.  The child was spawned and exited.                                 *)
(***************************************************************************)
Exited == pc = "done" /\ HasEvent(events, "exit")

\* The command of the spawn among the effects evs.
SpawnedCommand(evs) ==
    evs[CHOOSE i \in 1..Len(evs) : evs[i].e = "spawn"].cmd

\* What C11 says of every exit, with or without a message: an exit with 0
\* returns the result {command, 0, stdout, stderr, dry_run false}; any
\* other exit raises ExecutionError with the command spawned, the exit code
\* of the child and the output captured.
ExitDecides ==
    /\ last.op = "execute"
    /\ last.command = frame.command
    /\ last.command = SpawnedCommand(events)
    /\ last.stdout = EventArg(events, "stdout")
    /\ last.stderr = EventArg(events, "stderr")
    /\ last.returncode /= None
    /\ str(last.returncode[1]) = EventArg(events, "exit")
    /\ IF EventArg(events, "exit") = "0"
       THEN last.kind = "return" /\ ~last.dry_run /\ last.returncode = Some(0)
       ELSE last.kind = "CodexExecutionError"

\* C11 as stated: the outcome after an exit is decided by the exit code
\* alone, and the ExecutionError of a non-zero exit has no message.  It has
\* one: the default text of the class.
C11_ExitErrorHasNoMessage ==
    Exited =>
        /\ ExitDecides
        /\ last.kind = "CodexExecutionError" => last.message = ""

\* C11 as amended: the outcome after an exit is decided by the exit code
\* alone; the ExecutionError of a non-zero exit carries the command, the
\* exit code of the child (not -1 in its place) and the output captured,
\* and its message is the default text "Codex execution failed", whatever
\* the exit code and the output.
C11_ExitCodeDecides ==
    Exited =>
        /\ ExitDecides
        /\ last.kind = "CodexExecutionError"
              => last.message = "Codex execution failed"

\* A child exited with 1 after output on both streams, and the call raised.
C11_Witness ==
    /\ Exited
    /\ EventArg(events, "exit") = "1"
    /\ last.kind = "CodexExecutionError"
    /\ last.returncode = Some(1)
    /\ last.stdout = "ok"
    /\ last.stderr = "warn"

(***************************************************************************)
(* C12.  The launch of the target command found no binary: the path the    *)
(* resolution returned (verified in this call, or cached by an earlier     *)
(* one) names no file any more.  Then execute raises Unavailable, not      *)
(* ExecutionError, returns no result, and no child ran.                    *)
(***************************************************************************)
\* The call tried to launch the target and the binary is gone.  (The files
\* do not change between the launch and the end of the call.)
LaunchedMissing ==
    /\ pc = "done"
    /\ HasEvent(events, "spawn")
    /\ files[frame.binary] = "absent"

C12_MissingAtLaunchIsUnavailable ==
    LaunchedMissing =>
        /\ last.op = "execute"
        /\ last.kind = "CodexUnavailableError"
        /\ last.message = "Codex binary disappeared during execution"
        /\ ~HasEvent(events, "exit")
        /\ ~HasEvent(events, "timeout")

\* The binary passed its self-check in this call and was removed while the
\* call waited for the operator, who then agreed.
C12_Witness ==
    /\ LaunchedMissing
    /\ HasEvent(events, "selfcheck")
    /\ HasEvent(events, "answer")
    /\ last.kind = "CodexUnavailableError"

(***************************************************************************)
(* C13.  The confirmation gate.  A call has reached the gate once its      *)
(* command is built.                                                       *)
(***************************************************************************)
\* The places of the events of a kind among the effects evs.
Places(evs, kind) == {i \in 1..Len(evs) : evs[i].e = kind}

ReachedGate == frame.command /= <<>>

\* With approve=true the operator is never prompted; with approve=false a
\* call that reaches the gate prompts exactly once and reads at most one
\* answer; Enter alone counts as "no" and cancels; the dry-run result and
\* the spawn of the target come only after the prompt and a "yes"; a call
\* that does not reach the gate does not prompt.
C13_PromptOnceBeforeRun ==
    /\ ~ReachedGate => Places(events, "prompt") = {}
    /\ (ReachedGate /\ frame.approve)
          => Places(events, "prompt") = {} /\ Places(events, "answer") = {}
    /\ (ReachedGate /\ ~frame.approve)
          => /\ Cardinality(Places(events, "prompt")) = 1
             /\ Cardinality(Places(events, "answer")) <= 1
             /\ \A i \in Places(events, "typed") :
                   /\ \E j \in Places(events, "prompt") : j < i
                   /\ events[i].arg = ""
                         => /\ events[i + 1] = Event("answer", "no")
                            /\ last.kind = "CodexExecutionCancelled"
             /\ \A i \in Places(events, "spawn") :
                   \E j \in Places(events, "prompt"), k \in Places(events, "answer") :
                      j < k /\ k < i /\ events[k].arg = "yes"
             /\ (pc = "done" /\ last.kind = "return")
                   => \E j \in Places(events, "prompt"), k \in Places(events, "answer") :
                         j < k /\ events[k].arg = "yes"
             /\ pc = "confirm" <=> Places(events, "answer") = {}

\* An unapproved dry run returned its result after one prompt and a "yes".
C13_Witness ==
    /\ pc = "done"
    /\ ReachedGate
    /\ ~frame.approve
    /\ frame.dry_run
    /\ last.kind = "return"
    /\ Cardinality(Places(events, "prompt")) = 1

(***************************************************************************)
(* C14.  The order of the candidates of resolve_binary.                    *)
(***************************************************************************)
\* s without the elements that already stand before them.
RECURSIVE KeepFirst(_, _)
KeepFirst(s, acc) ==
    IF s = <<>> THEN acc
    ELSE KeepFirst(Tail(s), IF InSeq(Head(s), acc) THEN acc ELSE Append(acc, Head(s)))

\* The sources in priority order: override, settings, the literal default.
PriorityOrder ==
    KeepFirst((IF Truthy(binary_override) THEN <<binary_override[1]>> ELSE <<>>)
                 \o (IF Truthy(settings.bin) THEN <<settings.bin[1]>> ELSE <<>>)
                 \o <<"codex">>,
              <<>>)

\* The candidate denotes an executable whose self-check succeeds.
Passes(c) == \E p \in ExePaths : Denotes(c, p) /\ files[p] = "good"

\* The texts of the lookups among the effects evs, in order.
RECURSIVE Lookups(_)
Lookups(evs) ==
    IF evs = <<>> THEN <<>>
    ELSE IF Head(evs).e = "search" THEN <<Head(evs).arg>> \o Lookups(Tail(evs))
    ELSE Lookups(Tail(evs))

\* A resolve_binary that searched (the cache was empty) and returned.
FreshlyResolved ==
    /\ pc = "done"
    /\ last.op = "resolve_binary"
    /\ last.kind = "return"
    /\ HasEvent(events, "search")

\* When a search returns a path, the candidates looked up are, in priority
\* order without duplicates, those up to the first one that passes
\* verification; the path returned and cached is the one this candidate
\* denotes; that path alone was self-checked, and no later candidate was
\* looked up.
C14_FirstPassingCandidateWins ==
    FreshlyResolved =>
        \E n \in 1..Len(PriorityOrder) :
            /\ Passes(PriorityOrder[n])
            /\ \A j \in 1..(n - 1) : ~Passes(PriorityOrder[j])
            /\ Denotes(PriorityOrder[n], last.value)
            /\ files[last.value] = "good"
            /\ cached_binary = Some(last.value)
            /\ Lookups(events) = SubSeq(PriorityOrder, 1, n)
            /\ \A i \in Places(events, "selfcheck") : events[i].arg = last.value
            /\ Cardinality(Places(events, "selfcheck")) = 1

\* The override and the settings name different binaries, the override is
\* not installed, and the search returned the binary of the settings
\* without a look at "codex".
C14_Witness ==
    /\ FreshlyResolved
    /\ Len(PriorityOrder) = 3
    /\ Lookups(events) = <<binary_override[1], settings.bin[1]>>
    /\ files["/usr/bin/codex"] = "good"
    /\ last.value = "/usr/bin/codex-dev"

(***************************************************************************)
(* C15.  One command per call: built once, shown, spawned and reported.    *)
(***************************************************************************)
\* The words a POSIX shell reads from the line s (shlex.split): blanks
\* separate words, quotes group.
\* The place after the word that holds s[i]; quote is the open quote or "".
RECURSIVE WordEnd(_, _, _)
WordEnd(s, i, quote) ==
    IF i > Len(s) THEN i
    ELSE LET ch == SubSeq(s, i, i)
         IN  IF quote /= "" THEN WordEnd(s, i + 1, IF ch = quote THEN "" ELSE quote)
             ELSE IF ch = " " THEN i
             ELSE WordEnd(s, i + 1, IF ch \in {"'", "\""} THEN ch ELSE "")

\* The word w without its quotes.
RECURSIVE Unquote(_, _, _)
Unquote(w, i, quote) ==
    IF i > Len(w) THEN ""
    ELSE LET ch == SubSeq(w, i, i)
         IN  IF quote /= ""
             THEN (IF ch = quote THEN Unquote(w, i + 1, "")
                   ELSE ch \o Unquote(w, i + 1, quote))
             ELSE IF ch \in {"'", "\""} THEN Unquote(w, i + 1, ch)
             ELSE ch \o Unquote(w, i + 1, "")

RECURSIVE SplitFrom(_, _)
SplitFrom(s, i) ==
    IF i > Len(s) THEN <<>>
    ELSE IF SubSeq(s, i, i) = " " THEN SplitFrom(s, i + 1)
    ELSE LET j == WordEnd(s, i, "")
         IN  <<Unquote(SubSeq(s, i, j - 1), 1, "")>> \o SplitFrom(s, j)

shlex_split(s) == SplitFrom(s, 1)

\* The first line of the prompt of a mode, and its last line.
PromptHead(effective_mode) ==
    IF effective_mode = "auto" THEN "Codex will run in AUTO mode. Proceed?\n"
    ELSE "Execute Codex in SUGGEST mode?\n"
PromptTail == "\nContinue?"

\* The line of the prompt text between the two, if these are its ends.
DisplayedLine(text, effective_mode) ==
    LET head == PromptHead(effective_mode)
        n == Len(text) - Len(PromptTail)
    IN  IF /\ StartsWith(text, head)
           /\ n >= Len(head)
           /\ SubSeq(text, n + 1, Len(text)) = PromptTail
        THEN Some(SubSeq(text, Len(head) + 1, n))
        ELSE None

\* Every command a result or an ExecutionError of execute carries starts
\* with the path the resolution returned, which the cache holds; the
\* command spawned is the command built, the command reported is the
\* command built, and the line shown to the operator, while the prompt
\* stands, reads back word for word as the command built (the prompt is
\* recorded with that command, which is the command of the rest of the call).
C15_OneCommand ==
    /\ (last.op = "execute" /\ last.command /= <<>>)
          => /\ cached_binary /= None
             /\ last.command[1] = cached_binary[1]
             /\ last.command[1] = frame.binary
             /\ last.command[1] \in ExePaths
             /\ Len(last.command) > 1 => last.command = frame.command
    /\ \A i \in Places(events, "spawn") :
          events[i].cmd = frame.command /\ frame.command[1] = cached_binary[1]
    /\ \A i \in Places(events, "prompt") :
          /\ events[i].cmd = frame.command
          /\ pc = "confirm"
                => LET line == DisplayedLine(events[i].arg, frame.effective_mode)
                   IN  line /= None /\ shlex_split(line[1]) = frame.command

\* A child ran a command with a context of two words after the operator
\* saw it, and the call reported that command.
C15_Witness ==
    /\ pc = "done"
    /\ last.op = "execute"
    /\ last.command /= <<>>
    /\ frame.context = Some("fix it")
    /\ HasEvent(events, "prompt")
    /\ HasEvent(events, "exit")
    /\ last.command = SpawnedCommand(events)

(***************************************************************************)
(* C16.  The order of the steps of execute and the first failure.          *)
(***************************************************************************)
\* The step of execute an effect belongs to: 1 binary resolution, 2 sandbox
\* resolution, 5 confirmation, 7 spawn and what follows it.
StepOf(kind) ==
    CASE kind \in {"search", "selfcheck"} -> 1
      [] kind \in {"mkdir", "created"} -> 2
      [] kind \in {"prompt", "typed", "answer"} -> 5
      [] kind \in {"spawn", "exit", "timeout", "stdout", "stderr"} -> 7

\* The effects evs stand in the order of the steps.
InStepOrder(evs) ==
    \A i, j \in 1..Len(evs) : i < j => StepOf(evs[i].e) <= StepOf(evs[j].e)

\* No effect of step k or of a later step is among evs.
NothingFrom(k, evs) == \A i \in 1..Len(evs) : StepOf(evs[i].e) < k

\* An execute starts in this step of the behaviour.
ExecuteStarts ==
    /\ pc = "idle"
    /\ \/ pc' \in {"confirm", "running"}
       \/ pc' = "done" /\ last'.op = "execute"

\* The resolution of the binary would fail, with these files and this cache.
BinaryWouldFail ==
    resolve_binary(cached_binary, binary_override, settings.bin, files).res.kind
        /= "return"

\* The resolution of the sandbox would fail whatever sandbox is passed.
SandboxWouldFail ==
    \A sandbox \in SandboxChoices :
        resolve_sandbox(sandbox, settings.sandbox, dirs).res.kind /= "return"

\* The call got to the validation of its mode, and the mode is unsupported.
ModeFails == frame'.sandbox_path /= "" /\ frame'.effective_mode \notin ValidModes

\* The effects of a call stand in the order of the steps; a call whose
\* binary cannot be resolved ends with the failure of that step, whatever
\* the sandbox and the mode, and creates no directory, prompts nobody and
\* spawns nothing; otherwise a call whose sandbox cannot be resolved ends
\* with SandboxError, whatever the mode, without prompt or spawn; otherwise
\* a call with an unsupported mode ends with ExecutionError, whatever
\* approve, without prompt or spawn; otherwise the sandbox exists, the
\* command is built and an unapproved call waits at the prompt; a prompt
\* comes after the command is built, and Cancelled and the dry-run result
\* come without a spawn.
C16_Step ==
    /\ InStepOrder(events')
    /\ HasEvent(events', "prompt") => frame'.command /= <<>>
    /\ (pc' = "done" /\ (last'.kind = "CodexExecutionCancelled" \/ last'.dry_run))
          => NothingFrom(7, events')
    /\ ExecuteStarts =>
          IF BinaryWouldFail
          THEN /\ pc' = "done"
               /\ last'.kind \notin {"return", "CodexSandboxError", "CodexExecutionError",
                                     "CodexExecutionCancelled"}
               /\ NothingFrom(2, events')
               /\ dirs' = dirs
          ELSE IF SandboxWouldFail
          THEN /\ pc' = "done"
               /\ last'.kind = "CodexSandboxError"
               /\ NothingFrom(5, events')
          ELSE IF frame'.sandbox_path = ""
          THEN /\ pc' = "done"
               /\ last'.kind = "CodexSandboxError"
               /\ NothingFrom(5, events')
          ELSE IF ModeFails
          THEN /\ pc' = "done"
               /\ last'.kind = "CodexExecutionError"
               /\ last'.returncode = Some(-1)
               /\ NothingFrom(5, events')
          ELSE /\ Kind(dirs', frame'.sandbox_path) = "dir"
               /\ frame'.command /= <<>>
               /\ ~frame'.approve => pc' = "confirm"

C16_FirstFailureWins == [][C16_Step]_vars

\* A call found no binary; its sandbox could not have been resolved, and
\* the default mode of the settings is not a supported one either.
C16_Witness ==
    /\ pc = "done"
    /\ last.op = "execute"
    /\ last.kind = "CodexUnavailableError"
    /\ HasEvent(events, "search")
    /\ SandboxWouldFail
    /\ settings.default_mode = "turbo"

(***************************************************************************)
(* C17.  Every execute spawns the target at most once, prompts at most     *)
(* once, and ends in exactly one of the five outcomes RunResult,           *)
(* Unavailable, SandboxError, ExecutionError and Cancelled.                *)
(* The code has a sixth: an OSError other than FileNotFoundError, raised   *)
(* by the launch of the self-check or of the target, leaves execute as it  *)
(* is (see C3).                                                            *)
(***************************************************************************)
FiveOutcomes ==
    {"return", "CodexUnavailableError", "CodexSandboxError", "CodexExecutionError",
     "CodexExecutionCancelled"}

C17_OneSpawnFiveOutcomes ==
    /\ Cardinality(Places(events, "spawn")) <= 1
    /\ Cardinality(Places(events, "prompt")) <= 1
    /\ (pc = "done" /\ last.op = "execute") => last.kind \in FiveOutcomes

(***************************************************************************)
(* C18.  With an effective timeout (the timeout argument or, without one,  *)
(* the default of the settings), every call that has spawned the target    *)
(* ends: the child exits and the call returns its result or raises         *)
(* ExecutionError with the exit code, or the timeout elapses and the call  *)
(* raises ExecutionError; and no call that has spawned the target ends     *)
(* with Cancelled.                                                         *)
(***************************************************************************)
HasTimeout == frame.timeout /= None \/ settings.default_timeout /= None

EndedAfterSpawn ==
    /\ pc = "done"
    /\ \/ /\ HasEvent(events, "exit")
          /\ last.kind \in {"return", "CodexExecutionError"}
          /\ str(last.returncode[1]) = EventArg(events, "exit")
       \/ /\ HasEvent(events, "timeout")
          /\ last.kind = "CodexExecutionError"

C18_SpawnedCallEnds ==
    /\ [](HasEvent(events, "spawn") => last.kind /= "CodexExecutionCancelled")
    /\ [](pc = "running" => HasEvent(events, "spawn"))
    /\ (pc = "running" /\ HasTimeout) ~> EndedAfterSpawn

\* A child ran under the default timeout of the settings and was killed
\* when it elapsed.
C18_Witness ==
    /\ pc = "done"
    /\ HasEvent(events, "spawn")
    /\ HasEvent(events, "timeout")
    /\ frame.timeout = None
    /\ settings.default_timeout = Some(30)

(***************************************************************************)
(* C19.  The cache and the failed resolutions.                             *)
(***************************************************************************)
\* The candidate denotes an executable.
Located(c) == \E p \in ExePaths : Denotes(c, p)

\* A call that resolves the binary starts in this step of the behaviour.
Resolves == pc = "idle" /\ pc' /= "idle" /\ last'.op /= "resolve_sandbox"

\* With these files a search returns a path: the first candidate that is
\* located passes its self-check.
SearchSucceeds ==
    \E n \in 1..Len(PriorityOrder) :
        /\ Passes(PriorityOrder[n])
        /\ \A j \in 1..(n - 1) : ~Located(PriorityOrder[j])

\* The cache changes only from empty to the path a resolution has just
\* self-checked and returned; a call on an instance whose cache is empty,
\* after a failure too, searches again from the first candidate, fills the
\* cache if the search succeeds with the files as they are now, and leaves
\* it empty and fails if it does not.
C19_Step ==
    /\ cached_binary' /= cached_binary
          => /\ cached_binary = None
             /\ cached_binary' /= None
             /\ Resolves
             /\ files[cached_binary'[1]] = "good"
             /\ \E i \in Places(events', "selfcheck") :
                   events'[i].arg = cached_binary'[1]
             /\ IF last'.op = "resolve_binary"
                THEN last'.kind = "return" /\ last'.value = cached_binary'[1]
                ELSE frame'.binary = cached_binary'[1]
    /\ (Resolves /\ cached_binary = None)
          => /\ Lookups(events') /= <<>>
             /\ Lookups(events')[1] = PriorityOrder[1]
             /\ IF SearchSucceeds
                THEN /\ cached_binary' /= None
                     /\ Passes(Lookups(events')[Len(Lookups(events'))])
                ELSE /\ cached_binary' = None
                     /\ pc' = "done"
                     /\ last'.kind \notin FiveOutcomes \ {"CodexUnavailableError"}
                     /\ last'.command = <<>>

C19_OnlySuccessFillsCache == [][C19_Step]_vars

\* The host changed, and after it a resolve_binary searched and failed: the
\* cache is still empty.
C19_Witness ==
    /\ pc = "done"
    /\ last.op = "resolve_binary"
    /\ last.kind = "CodexUnavailableError"
    /\ HasEvent(events, "selfcheck")
    /\ cached_binary = None
    /\ envChanges = 1

(***************************************************************************)
(* C20.  The sandbox directory is created before the mode is validated,    *)
(* the operator is asked and a dry run returns, and it is never deleted.   *)
(***************************************************************************)
\* An execute has ended before any spawn: with the ExecutionError of an
\* unsupported mode, with Cancelled, or with the result of a dry run.
EndedBeforeSpawn ==
    /\ pc = "done"
    /\ last.op = "execute"
    /\ \/ last.kind = "CodexExecutionError" /\ ~HasEvent(events, "spawn")
       \/ last.kind = "CodexExecutionCancelled"
       \/ last.kind = "return" /\ last.dry_run

\* No step of the behaviour turns a directory into anything else; and when
\* an execute has ended with the ExecutionError of an unsupported mode,
\* with Cancelled or with a dry-run result, its sandbox path is resolved
\* and is a directory, created by the call if it was not there.
C20_Step ==
    /\ \A p \in DirPaths : dirs[p] = "dir" => dirs'[p] = "dir"
    /\ EndedBeforeSpawn'
          => /\ IsAbs(frame'.sandbox_path)
             /\ Kind(dirs', frame'.sandbox_path) = "dir"
             /\ \A i \in Places(events', "created") : dirs'[events'[i].arg] = "dir"

C20_SandboxCreatedFirstNeverDeleted == [][C20_Step]_vars

\* A call with an unsupported mode failed after it had created its sandbox
\* directory.
C20_Witness ==
    /\ EndedBeforeSpawn
    /\ last.kind = "CodexExecutionError"
    /\ \E i \in Places(events, "created") : events[i].arg = frame.sandbox_path
    /\ dirs[frame.sandbox_path] = "dir"

====
